---------------------------- MODULE Spec2Model ----------------------------
(***************************************************************************)
(* Eco-Interact (Streamlit_app.py): the three model functions              *)
(* plant_growth_index, animal_survival_prob and ecosystem_stability, the   *)
(* interpretation ladders, and the script as Streamlit runs it: the whole  *)
(* script is executed once when the page loads and once more after every   *)
(* widget interaction.                                                     *)
(*                                                                         *)
(* Numbers.  The script computes in floating point; the model computes the *)
(* same expressions exactly, in fixed point:                               *)
(*   temp      in half degrees        (slider step 0.5:  25.0 is 50)       *)
(*   soil_ph   in tenths              (slider step 0.1:   6.8 is 68)       *)
(*   co2, rainfall, humidity          as the sliders give them             *)
(*   a sub-score of the plant index   in 1/SubUnit                         *)
(*   plant_index                      in 1/PlantUnit                       *)
(*   animal_prob                      in 1/AnimalUnit                      *)
(*   stability                        in 1/StabilityUnit                   *)
(* Every value the script can compute from slider values is a whole number *)
(* of these units, so no rounding takes place in the model.  Rounding      *)
(* errors of the floating-point evaluation are outside the model.          *)
(***************************************************************************)
EXTENDS Integers, Sequences, FiniteSets

VARIABLES
    temp,         \* st.slider "Temperature", half degrees
    co2,          \* st.slider "CO2 concentration", ppm
    rainfall,     \* st.slider "Monthly rainfall", mm
    humidity,     \* st.slider "Relative humidity", %
    soil_ph,      \* st.slider "Soil pH", tenths
    disturbance,  \* st.selectbox "Human disturbance level"
    run_sim,      \* what st.button returned in the latest script run
    vary_param,   \* state of the sensitivity selectbox, NoWidget when the
                  \* latest run did not execute it
    metrics,      \* <<>> or <<plant_index, animal_prob, stability>>: the three
                  \* st.metric cards of the latest run
    messages,     \* <<>> or the three interpretation messages of the latest run
    plot          \* <<>> or <<parameter of the sensitivity chart rendered>>

vars == <<temp, co2, rainfall, humidity, soil_ph, disturbance, run_sim,
          vary_param, metrics, messages, plot>>

sliders == <<temp, co2, rainfall, humidity, soil_ph>>

----------------------------------------------------------------------------
(* Fixed-point units *)

SubUnit == 12
PlantUnit == 200
\* the three suitability scores of animal_survival_prob, in tenths
BlendUnit == 10
\* d_factor, in tenths
FactorUnit == 10
\* prob = base * habitat * d_factor * 100 with base in 1/(200 * BlendUnit),
\* habitat in 1/(200 * PlantUnit) and d_factor in 1/FactorUnit
AnimalUnit == (200 * BlendUnit * 200 * PlantUnit * FactorUnit) \div 100
\* (plant_index + animal_prob) / 2
StabilityUnit == 2 * AnimalUnit

abs(x) == IF x < 0 THEN -x ELSE x
max(a, b) == IF a >= b THEN a ELSE b
min(a, b) == IF a <= b THEN a ELSE b

\* np.clip with the upper limit left out
np_clip_no_upper(x, lo, hi) == IF x < lo THEN lo ELSE x

\* np.clip(x, lo, hi)
np_clip(x, lo, hi) == IF x < lo THEN lo ELSE IF x > hi THEN hi ELSE x

----------------------------------------------------------------------------
(* Sidebar controls: the slider domains and defaults *)

TempMin == -20
TempMax == 100
TempDefault == 50
Co2Min == 250
Co2Max == 1000
Co2Default == 415
Co2Step == 5
RainfallMin == 0
RainfallMax == 1000
RainfallDefault == 120
RainfallStep == 5
HumidityMin == 0
HumidityMax == 100
HumidityDefault == 60
SoilPhMin == 35
SoilPhMax == 90
SoilPhDefault == 68

TempDomain == TempMin..TempMax
Co2Domain == {Co2Min + Co2Step * k : k \in 0..((Co2Max - Co2Min) \div Co2Step)}
RainfallDomain ==
    {RainfallMin + RainfallStep * k :
        k \in 0..((RainfallMax - RainfallMin) \div RainfallStep)}
HumidityDomain == HumidityMin..HumidityMax
SoilPhDomain == SoilPhMin..SoilPhMax

DisturbanceLevels == {"Low", "Moderate", "High"}
DisturbanceDefault == "Low"

VaryOptions == {"Temperature", "CO2", "Rainfall", "Humidity", "Soil pH"}
VaryDefault == "Temperature"
NoWidget == "(not rendered)"

----------------------------------------------------------------------------
(* plant_growth_index: the five sub-scores, in 1/SubUnit *)

\* The optimum each sub-score measures the distance from
TempOptimum == 50
Co2Floor == 250
Co2Saturation == 1000
RainfallOptimumLow == 50
RainfallOptimumHigh == 175
HumidityOptimum == 60
SoilPhOptimum == 70

\* max(0, 100 - abs(temp - 25) * 4); temp is in half degrees
t_score(t) == max(0, 100 * SubUnit - abs(t - TempOptimum) * 2 * SubUnit)

\* The CO2 sub-score scaled from 0 ppm instead of from the slider's floor
c_score_from_zero(c) ==
    np_clip((c * 100 * SubUnit) \div Co2Saturation, 0, 100 * SubUnit)

\* np.clip((co2 - 250) / (1000 - 250) * 100, 0, 100)
c_score(c) ==
    np_clip(((c - Co2Floor) * 100 * SubUnit) \div (Co2Saturation - Co2Floor),
            0, 100 * SubUnit)

\* The rainfall sub-score with the sign of the penalty below the optimum flipped
r_score_sign_slip(r) ==
    max(0, 100 * SubUnit
            - (max(0, r - RainfallOptimumHigh) - max(0, RainfallOptimumLow - r))
                * (SubUnit \div 4))

\* max(0, 100 - (max(0, rainfall - 175) + max(0, 50 - rainfall)) * 0.25)
r_score(r) ==
    max(0, 100 * SubUnit
            - (max(0, r - RainfallOptimumHigh) + max(0, RainfallOptimumLow - r))
                * (SubUnit \div 4))

\* The humidity sub-score with a penalty of 2.5 per point instead of 1.5
h_score_steep(h) ==
    max(0, 100 * SubUnit - abs(h - HumidityOptimum) * ((5 * SubUnit) \div 2))

\* max(0, 100 - abs(humidity - 60) * 1.5)
h_score(h) ==
    max(0, 100 * SubUnit - abs(h - HumidityOptimum) * ((3 * SubUnit) \div 2))

\* max(0, 100 - abs(soil_ph - 7.0) * 25); soil_ph is in tenths
ph_score(p) ==
    max(0, 100 * SubUnit - abs(p - SoilPhOptimum) * ((25 * SubUnit) \div 10))

\* The weights of the weighted sum, in hundredths
WeightT == 28
WeightC == 18
WeightR == 22
WeightH == 17
WeightPh == 15

\* idx = 0.28*t_score + 0.18*c_score + 0.22*r_score + 0.17*h_score
\*       + 0.15*ph_score, in 1/(100 * SubUnit)
WeightedSum(t, c, r, h, p) ==
    WeightT * t_score(t) + WeightC * c_score(c) + WeightR * r_score(r)
        + WeightH * h_score(h) + WeightPh * ph_score(p)

\* idx before the final clip, in 1/PlantUnit
plant_idx(t, c, r, h, p) ==
    WeightedSum(t, c, r, h, p) \div ((100 * SubUnit) \div PlantUnit)

\* return np.clip(idx, 0, 100)
plant_growth_index(t, c, r, h, p) ==
    np_clip(plant_idx(t, c, r, h, p), 0, 100 * PlantUnit)

----------------------------------------------------------------------------
(* animal_survival_prob *)

AnimalTempOptimum == 44
AnimalRainfallOptimum == 120
AnimalHumidityOptimum == 55

\* d_factor with other penalties: Moderate 0.7, High 0.5
d_factor_other(d) ==
    CASE d = "Low" -> 10 [] d = "Moderate" -> 7 [] d = "High" -> 5

\* d_factor = {"Low": 1.0, "Moderate": 0.8, "High": 0.6}[disturbance]
d_factor(d) ==
    CASE d = "Low" -> 10 [] d = "Moderate" -> 8 [] d = "High" -> 6

\* t = max(0, 100 - abs(temp - 22) * 3); temp is in half degrees
animal_t(t) ==
    max(0, 100 * BlendUnit - abs(t - AnimalTempOptimum) * ((3 * BlendUnit) \div 2))

\* r = max(0, 100 - abs(rainfall - 120) * 0.3)
animal_r(r) ==
    max(0, 100 * BlendUnit
            - abs(r - AnimalRainfallOptimum) * ((3 * BlendUnit) \div 10))

\* h = max(0, 100 - abs(humidity - 55) * 1.2)
animal_h(h) ==
    max(0, 100 * BlendUnit
            - abs(h - AnimalHumidityOptimum) * ((12 * BlendUnit) \div 10))

\* base = 0.5 * (t + r) * 0.01 + 0.5 * h * 0.01, in 1/(200 * BlendUnit)
animal_base(t, r, h) == animal_t(t) + animal_r(r) + animal_h(h)

\* (0.5 + 0.5*(plant_index/100)), in 1/(200 * PlantUnit)
habitat(pi) == 100 * PlantUnit + pi

\* prob = base * (0.5 + 0.5*(plant_index/100)) * d_factor * 100, in 1/AnimalUnit
animal_prob_raw(t, r, h, pi, d) ==
    animal_base(t, r, h) * habitat(pi) * d_factor(d)

\* return np.clip(prob, 0, 100)
animal_survival_prob(t, r, h, pi, d) ==
    np_clip(animal_prob_raw(t, r, h, pi, d), 0, 100 * AnimalUnit)

----------------------------------------------------------------------------
(* ecosystem_stability *)

\* d_penalty with the penalties of Moderate and High exchanged
d_penalty_swapped(d) ==
    CASE d = "Low" -> 0 [] d = "Moderate" -> 25 [] d = "High" -> 10

\* d_penalty = {"Low": 0, "Moderate": 10, "High": 25}[disturbance]
d_penalty(d) ==
    CASE d = "Low" -> 0 [] d = "Moderate" -> 10 [] d = "High" -> 25

\* stab = (plant_index + animal_prob) / 2 - d_penalty, in 1/StabilityUnit;
\* plant_index in 1/PlantUnit, animal_prob in 1/AnimalUnit
stability_raw(pi, ap, d) ==
    pi * (AnimalUnit \div PlantUnit) + ap - d_penalty(d) * StabilityUnit

\* return np.clip(stab, 0, 100)
ecosystem_stability(pi, ap, d) ==
    np_clip(stability_raw(pi, ap, d), 0, 100 * StabilityUnit)

\* plant_index, animal_prob and stability as the script computes them
Simulate(t, c, r, h, p, d) ==
    LET plant_index == plant_growth_index(t, c, r, h, p)
        animal_prob == animal_survival_prob(t, r, h, plant_index, d)
    IN  <<plant_index, animal_prob, ecosystem_stability(plant_index, animal_prob, d)>>

----------------------------------------------------------------------------
(* Interpretations: each ladder gives the messages it emits, in order *)

\* The plant ladder with `if` in place of `elif`
plant_interpretation_two_ifs(pi) ==
    (IF pi > 70 * PlantUnit THEN <<"thrive">> ELSE <<>>)
        \o (IF pi > 40 * PlantUnit THEN <<"moderate growth">> ELSE <<"struggle">>)

\* if plant_index > 70 / elif plant_index > 40 / else
plant_interpretation(pi) ==
    IF pi > 70 * PlantUnit THEN <<"thrive">>
    ELSE IF pi > 40 * PlantUnit THEN <<"moderate growth">>
    ELSE <<"struggle">>

\* The animal ladder with >= in place of >
animal_interpretation_inclusive(ap) ==
    IF ap >= 65 * AnimalUnit THEN <<"sustainable">>
    ELSE IF ap >= 35 * AnimalUnit THEN <<"uncertain">>
    ELSE <<"low survival">>

\* if animal_prob > 65 / elif animal_prob > 35 / else
animal_interpretation(ap) ==
    IF ap > 65 * AnimalUnit THEN <<"sustainable">>
    ELSE IF ap > 35 * AnimalUnit THEN <<"uncertain">>
    ELSE <<"low survival">>

\* if stability > 65 / elif stability > 40 / else
stability_interpretation(st) ==
    IF st > 65 * StabilityUnit THEN <<"stable">>
    ELSE IF st > 40 * StabilityUnit THEN <<"vulnerable">>
    ELSE <<"low stability">>

Interpret(m) ==
    <<plant_interpretation(m[1]), animal_interpretation(m[2]),
      stability_interpretation(m[3])>>

----------------------------------------------------------------------------
(* The slider values the model checker moves the sliders to: each slider's  *)
(* two ends and Samples - 1 evenly spaced values between them, its default  *)
(* and the optima of the formulas.                                          *)

Samples == 3

Sampled(lo, hi, step) ==
    {lo + step * ((i * ((hi - lo) \div step)) \div Samples) : i \in 0..Samples}

TempValues ==
    Sampled(TempMin, TempMax, 1) \cup {TempDefault, TempOptimum, AnimalTempOptimum}
Co2Values == Sampled(Co2Min, Co2Max, Co2Step) \cup {Co2Default}
RainfallValues ==
    Sampled(RainfallMin, RainfallMax, RainfallStep)
        \cup {RainfallDefault, RainfallOptimumLow, RainfallOptimumHigh,
              AnimalRainfallOptimum}
HumidityValues ==
    Sampled(HumidityMin, HumidityMax, 1)
        \cup {HumidityDefault, HumidityOptimum, AnimalHumidityOptimum}
SoilPhValues == Sampled(SoilPhMin, SoilPhMax, 1) \cup {SoilPhDefault, SoilPhOptimum}

----------------------------------------------------------------------------
(* One run of the script *)

\* The results block outside the `if run_sim:`
ResultsBlockAlwaysRuns(clicked) == TRUE

\* `if run_sim:` - the results block runs when st.button returned True, which
\* it does only in the run its own click caused
ResultsBlockRuns(clicked) == clicked

\* The script from the sidebar down, with the sliders and the disturbance
\* selectbox already holding the values of this run.  clicked: whether this
\* run was caused by a click on Run Simulation; sel: the state of the
\* sensitivity selectbox as the browser sent it.  A widget the run does not
\* execute loses its state.
ScriptRun(clicked, sel) ==
    /\ run_sim' = clicked
    /\ IF ResultsBlockRuns(clicked)
       THEN /\ metrics' = Simulate(temp', co2', rainfall', humidity', soil_ph',
                                   disturbance')
            /\ messages' = Interpret(metrics')
            /\ vary_param' = IF sel = NoWidget THEN VaryDefault ELSE sel
            /\ plot' = <<vary_param'>>
       ELSE /\ metrics' = <<>>
            /\ messages' = <<>>
            /\ vary_param' = NoWidget
            /\ plot' = <<>>

\* st.info("Adjust sliders in the left panel and click Run Simulation.")
Prompt == ~run_sim

\* The page as first loaded: every widget at its default, the button not clicked
Init ==
    /\ temp = TempDefault
    /\ co2 = Co2Default
    /\ rainfall = RainfallDefault
    /\ humidity = HumidityDefault
    /\ soil_ph = SoilPhDefault
    /\ disturbance = DisturbanceDefault
    /\ run_sim = FALSE
    /\ vary_param = NoWidget
    /\ metrics = <<>>
    /\ messages = <<>>
    /\ plot = <<>>

SetTemp ==
    \E v \in TempValues \ {temp} :
        /\ temp' = v
        /\ UNCHANGED <<co2, rainfall, humidity, soil_ph, disturbance>>
        /\ ScriptRun(FALSE, vary_param)

SetCo2 ==
    \E v \in Co2Values \ {co2} :
        /\ co2' = v
        /\ UNCHANGED <<temp, rainfall, humidity, soil_ph, disturbance>>
        /\ ScriptRun(FALSE, vary_param)

SetRainfall ==
    \E v \in RainfallValues \ {rainfall} :
        /\ rainfall' = v
        /\ UNCHANGED <<temp, co2, humidity, soil_ph, disturbance>>
        /\ ScriptRun(FALSE, vary_param)

SetHumidity ==
    \E v \in HumidityValues \ {humidity} :
        /\ humidity' = v
        /\ UNCHANGED <<temp, co2, rainfall, soil_ph, disturbance>>
        /\ ScriptRun(FALSE, vary_param)

SetSoilPh ==
    \E v \in SoilPhValues \ {soil_ph} :
        /\ soil_ph' = v
        /\ UNCHANGED <<temp, co2, rainfall, humidity, disturbance>>
        /\ ScriptRun(FALSE, vary_param)

SetDisturbance ==
    \E v \in DisturbanceLevels \ {disturbance} :
        /\ disturbance' = v
        /\ UNCHANGED sliders
        /\ ScriptRun(FALSE, vary_param)

\* A click on Run Simulation
ClickRun ==
    /\ UNCHANGED <<sliders, disturbance>>
    /\ ScriptRun(TRUE, vary_param)

\* The sensitivity selectbox can be changed only while it is on the page
SetVaryParam ==
    /\ vary_param # NoWidget
    /\ \E v \in VaryOptions \ {vary_param} :
        /\ UNCHANGED <<sliders, disturbance>>
        /\ ScriptRun(FALSE, v)

\* An edit of the report text area or a click on the download button, which
\* are on the page only when the results block ran
ReportInteraction ==
    /\ metrics # <<>>
    /\ UNCHANGED <<sliders, disturbance>>
    /\ ScriptRun(FALSE, vary_param)

Next ==
    \/ SetTemp
    \/ SetCo2
    \/ SetRainfall
    \/ SetHumidity
    \/ SetSoilPh
    \/ SetDisturbance
    \/ ClickRun
    \/ SetVaryParam
    \/ ReportInteraction

Spec == Init /\ [][Next]_vars

----------------------------------------------------------------------------
(* The model functions on their own: every value of one slider, the others  *)
(* at their defaults, and then a click on Run Simulation.                   *)

AxisInputs ==
    {<<t, Co2Default, RainfallDefault, HumidityDefault, SoilPhDefault>> :
        t \in TempDomain}
    \cup {<<TempDefault, c, RainfallDefault, HumidityDefault, SoilPhDefault>> :
        c \in Co2Domain}
    \cup {<<TempDefault, Co2Default, r, HumidityDefault, SoilPhDefault>> :
        r \in RainfallDomain}
    \cup {<<TempDefault, Co2Default, RainfallDefault, h, SoilPhDefault>> :
        h \in HumidityDomain}
    \cup {<<TempDefault, Co2Default, RainfallDefault, HumidityDefault, p>> :
        p \in SoilPhDomain}

SweepInit ==
    /\ \E in \in AxisInputs :
        /\ temp = in[1]
        /\ co2 = in[2]
        /\ rainfall = in[3]
        /\ humidity = in[4]
        /\ soil_ph = in[5]
    /\ disturbance \in DisturbanceLevels
    /\ run_sim = FALSE
    /\ vary_param = NoWidget
    /\ metrics = <<>>
    /\ messages = <<>>
    /\ plot = <<>>

SweepNext == ClickRun

SweepSpec == SweepInit /\ [][SweepNext]_vars

----------------------------------------------------------------------------
(* The interpretation ladders on their own: the results block with every    *)
(* score k in 0..100, and the scores up to Fine units beside it, on the     *)
(* three cards.                                                             *)

Fine == 1

Score(k, e, unit) == np_clip(k * unit + e, 0, 100 * unit)

LadderScores ==
    {<<Score(k, e, PlantUnit), Score(k, e, AnimalUnit), Score(k, e, StabilityUnit)>> :
        k \in 0..100, e \in (-Fine)..Fine}

LadderInit ==
    /\ temp = TempDefault
    /\ co2 = Co2Default
    /\ rainfall = RainfallDefault
    /\ humidity = HumidityDefault
    /\ soil_ph = SoilPhDefault
    /\ disturbance = DisturbanceDefault
    /\ run_sim = TRUE
    /\ vary_param = NoWidget
    /\ metrics \in LadderScores
    /\ messages = <<>>
    /\ plot = <<>>

\* Lines 112-131 of the results block
ShowInterpretation ==
    /\ messages = <<>>
    /\ messages' = Interpret(metrics)
    /\ UNCHANGED <<sliders, disturbance, run_sim, vary_param, metrics, plot>>

LadderNext == ShowInterpretation

LadderSpec == LadderInit /\ [][LadderNext]_vars

----------------------------------------------------------------------------
(* Properties *)

\* How many evenly spaced scores stand for "any plant_index / animal_prob in
\* 0..100" where a function is called with a score that is not computed
ArgSteps == 10

ScoreArgs(unit) ==
    {i * ((100 * unit) \div ArgSteps) : i \in 0..ArgSteps} \cup {100 * unit}

PlantArgs == ScoreArgs(PlantUnit)
AnimalArgs == ScoreArgs(AnimalUnit)

InRange(v, unit) == 0 <= v /\ v <= 100 * unit

Rendered == metrics # <<>>

StabilityInRange ==
    \A p \in PlantArgs, a \in AnimalArgs, d \in DisturbanceLevels :
        InRange(ecosystem_stability(p, a, d), StabilityUnit)

\* C1: for the slider values and the disturbance level of every reachable
\* state, plant_growth_index, animal_survival_prob (with the plant index of
\* the same inputs and with any plant_index in 0..100) and ecosystem_stability
\* (with any plant_index and animal_prob in 0..100) return a value in 0..100,
\* and so are the three values a run renders.
C1_IndexesInRange ==
    LET pi == plant_growth_index(temp, co2, rainfall, humidity, soil_ph)
    IN  /\ InRange(pi, PlantUnit)
        /\ InRange(animal_survival_prob(temp, rainfall, humidity, pi, disturbance),
                   AnimalUnit)
        /\ \A p \in PlantArgs :
              InRange(animal_survival_prob(temp, rainfall, humidity, p,
                                           disturbance), AnimalUnit)
        /\ StabilityInRange
        /\ Rendered =>
              /\ InRange(metrics[1], PlantUnit)
              /\ InRange(metrics[2], AnimalUnit)
              /\ InRange(metrics[3], StabilityUnit)

\* A run rendered an animal survival probability of 100 that the clip cut
\* down from a larger product.
C1_Witness ==
    /\ Rendered
    /\ animal_prob_raw(temp, rainfall, humidity, metrics[1], disturbance)
            > 100 * AnimalUnit
    /\ metrics[2] = 100 * AnimalUnit

Ordered(low, moderate, high) == low >= moderate /\ moderate >= high

StabilityOrdered ==
    \A p \in PlantArgs, a \in AnimalArgs :
        Ordered(ecosystem_stability(p, a, "Low"),
                ecosystem_stability(p, a, "Moderate"),
                ecosystem_stability(p, a, "High"))

\* C3: with all other arguments fixed, animal_survival_prob and
\* ecosystem_stability under Low are at least those under Moderate, which are
\* at least those under High; the same holds of the animal probability and the
\* stability the whole pipeline plant -> animal -> stability computes.
C3_DisturbanceMonotone ==
    /\ \A p \in PlantArgs :
          Ordered(animal_survival_prob(temp, rainfall, humidity, p, "Low"),
                  animal_survival_prob(temp, rainfall, humidity, p, "Moderate"),
                  animal_survival_prob(temp, rainfall, humidity, p, "High"))
    /\ StabilityOrdered
    /\ \A i \in {2, 3} :
          Ordered(Simulate(temp, co2, rainfall, humidity, soil_ph, "Low")[i],
                  Simulate(temp, co2, rainfall, humidity, soil_ph, "Moderate")[i],
                  Simulate(temp, co2, rainfall, humidity, soil_ph, "High")[i])

\* A run under High rendered a stability strictly below the one the same
\* sliders give under Moderate, itself strictly below the one under Low.
C3_Witness ==
    /\ Rendered
    /\ disturbance = "High"
    /\ metrics[3] < Simulate(temp, co2, rainfall, humidity, soil_ph, "Moderate")[3]
    /\ Simulate(temp, co2, rainfall, humidity, soil_ph, "Moderate")[3]
            < Simulate(temp, co2, rainfall, humidity, soil_ph, "Low")[3]

AllMinima ==
    /\ temp = TempMin
    /\ co2 = Co2Min
    /\ rainfall = RainfallMin
    /\ humidity = HumidityMin
    /\ soil_ph = SoilPhMin

\* C5 as claimed: with every slider at its minimum the plant index rendered
\* is exactly 0.
C5_AllMinimaGiveZero == (Rendered /\ AllMinima) => metrics[1] = 0

\* C5 as amended: with every slider at its minimum the plant index rendered is
\* 22.825, the weighted sum itself: it is positive, so nothing is clamped.
C5_AllMinimaGive22825 ==
    (Rendered /\ AllMinima) =>
        /\ metrics[1] * 1000 = 22825 * PlantUnit
        /\ metrics[1] = plant_idx(temp, co2, rainfall, humidity, soil_ph)

\* A run with every slider at its minimum.
C5_Witness == Rendered /\ AllMinima

\* C6: animal_survival_prob is clamp_0_100(blend * habitat * d) where habitat is
\* linear in plant_index with habitat(0) = 0.5 and habitat(100) = 1.0 and d is
\* Low -> 1.0, Moderate -> 0.8, High -> 0.6: the unclamped value under Moderate
\* is 0.8 times, and under High 0.6 times, the one under Low, and the unclamped
\* value at plant_index 0 is half the one at plant_index 100.
C6_AnimalFormula ==
    /\ d_factor("Low") = FactorUnit
    /\ d_factor("Moderate") * 10 = 8 * FactorUnit
    /\ d_factor("High") * 10 = 6 * FactorUnit
    /\ habitat(0) * 2 = 200 * PlantUnit
    /\ habitat(100 * PlantUnit) = 200 * PlantUnit
    /\ \A p \in PlantArgs :
          LET low == animal_prob_raw(temp, rainfall, humidity, p, "Low")
              raw == animal_prob_raw(temp, rainfall, humidity, p, disturbance)
          IN  /\ (habitat(p) - habitat(0)) * 100 * PlantUnit
                    = p * (habitat(100 * PlantUnit) - habitat(0))
              /\ low % 10 = 0
              /\ animal_prob_raw(temp, rainfall, humidity, p, "Moderate")
                    = 8 * (low \div 10)
              /\ animal_prob_raw(temp, rainfall, humidity, p, "High")
                    = 6 * (low \div 10)
              /\ animal_survival_prob(temp, rainfall, humidity, p, disturbance)
                    = max(0, min(100 * AnimalUnit, raw))
    /\ \A d \in DisturbanceLevels :
          animal_prob_raw(temp, rainfall, humidity, 100 * PlantUnit, d)
              = 2 * animal_prob_raw(temp, rainfall, humidity, 0, d)
    /\ Rendered =>
          metrics[2] = max(0, min(100 * AnimalUnit,
              animal_prob_raw(temp, rainfall, humidity, metrics[1], disturbance)))

\* A run under Moderate rendered an animal survival probability strictly
\* between 0 and 100: 0.8 times the unclamped value under Low.
C6_Witness ==
    /\ Rendered
    /\ disturbance = "Moderate"
    /\ 0 < metrics[2]
    /\ metrics[2] < 100 * AnimalUnit
    /\ metrics[2]
          = 8 * (animal_prob_raw(temp, rainfall, humidity, metrics[1], "Low") \div 10)

SubScoresInRange ==
    /\ \A t \in TempDomain : InRange(t_score(t), SubUnit)
    /\ \A c \in Co2Domain : InRange(c_score(c), SubUnit)
    /\ \A r \in RainfallDomain : InRange(r_score(r), SubUnit)
    /\ \A h \in HumidityDomain :
          InRange(h_score(h), SubUnit) /\ h_score(h) >= 10 * SubUnit
    /\ \A p \in SoilPhDomain :
          InRange(ph_score(p), SubUnit) /\ ph_score(p) * 10 >= 125 * SubUnit

\* C10: the weights sum to 1 and every sub-score is in 0..100 on its whole
\* slider domain, the humidity sub-score at least 10 and the soil-pH sub-score
\* at least 12.5; so, for the slider values of every reachable state, the
\* weighted sum is in 0..100 before the final clip, the clip does not change
\* it, and the plant index is at least 3.575.
C10_ClipIsIdentity ==
    /\ WeightT + WeightC + WeightR + WeightH + WeightPh = 100
    /\ SubScoresInRange
    /\ LET sum == WeightedSum(temp, co2, rainfall, humidity, soil_ph)
           idx == plant_idx(temp, co2, rainfall, humidity, soil_ph)
       IN  /\ 0 <= sum /\ sum <= 100 * 100 * SubUnit
           /\ idx * 100 * SubUnit = sum * PlantUnit
           /\ plant_growth_index(temp, co2, rainfall, humidity, soil_ph) = idx
           /\ idx * 1000 >= 3575 * PlantUnit
    /\ Rendered => metrics[1] * 1000 >= 3575 * PlantUnit

\* A run rendered the smallest plant index there is, 3.575.
C10_Witness == Rendered /\ metrics[1] * 1000 = 3575 * PlantUnit

\* The distance of a slider value from the optimum of its sub-score
TempDistance(t) == abs(t - TempOptimum)
Co2Distance(c) == abs(Co2Saturation - c)
RainfallDistance(r) == max(0, r - RainfallOptimumHigh) + max(0, RainfallOptimumLow - r)
HumidityDistance(h) == abs(h - HumidityOptimum)
SoilPhDistance(p) == abs(p - SoilPhOptimum)

PlantLabels == {"thrive", "moderate growth", "struggle"}
AnimalLabels == {"sustainable", "uncertain", "low survival"}
StabilityLabels == {"stable", "vulnerable", "low stability"}

\* C2: for every score in 0..100 each of the three ladders emits exactly one
\* message, one of the three of that ladder.
C2_OneMessagePerLadder ==
    messages # <<>> =>
        /\ Len(messages) = 3
        /\ \A i \in 1..3 : Len(messages[i]) = 1
        /\ messages[1][1] \in PlantLabels
        /\ messages[2][1] \in AnimalLabels
        /\ messages[3][1] \in StabilityLabels

\* The ladders ran on the scores 0, 0, 0 and each emitted its lowest message.
C2_Witness ==
    /\ metrics = <<0, 0, 0>>
    /\ messages = <<(<<"struggle">>), (<<"low survival">>), (<<"low stability">>)>>

\* C7 as claimed: each ladder gives the label of the first band, from the top,
\* whose lower bound the score meets or exceeds.
C7_LowerBoundInclusive ==
    messages # <<>> =>
        /\ messages[1] = IF metrics[1] >= 70 * PlantUnit THEN <<"thrive">>
                         ELSE IF metrics[1] >= 40 * PlantUnit
                              THEN <<"moderate growth">>
                         ELSE <<"struggle">>
        /\ messages[2] = IF metrics[2] >= 65 * AnimalUnit THEN <<"sustainable">>
                         ELSE IF metrics[2] >= 35 * AnimalUnit THEN <<"uncertain">>
                         ELSE <<"low survival">>
        /\ messages[3] = IF metrics[3] >= 65 * StabilityUnit THEN <<"stable">>
                         ELSE IF metrics[3] >= 40 * StabilityUnit THEN <<"vulnerable">>
                         ELSE <<"low stability">>

\* C7 as amended: a score gets a band's label only when it is strictly above
\* the band's lower bound; a score equal to the bound gets the label of the
\* band below.
C7_LowerBoundExclusive ==
    messages # <<>> =>
        /\ metrics[1] >= 70 * PlantUnit + 1 <=> messages[1] = <<"thrive">>
        /\ metrics[1] <= 40 * PlantUnit <=> messages[1] = <<"struggle">>
        /\ metrics[1] = 70 * PlantUnit => messages[1] = <<"moderate growth">>
        /\ metrics[1] = 40 * PlantUnit => messages[1] = <<"struggle">>
        /\ metrics[2] >= 65 * AnimalUnit + 1 <=> messages[2] = <<"sustainable">>
        /\ metrics[2] <= 35 * AnimalUnit <=> messages[2] = <<"low survival">>
        /\ metrics[2] = 65 * AnimalUnit => messages[2] = <<"uncertain">>
        /\ metrics[2] = 35 * AnimalUnit => messages[2] = <<"low survival">>
        /\ metrics[3] >= 65 * StabilityUnit + 1 <=> messages[3] = <<"stable">>
        /\ metrics[3] <= 40 * StabilityUnit <=> messages[3] = <<"low stability">>
        /\ metrics[3] = 65 * StabilityUnit => messages[3] = <<"vulnerable">>
        /\ metrics[3] = 40 * StabilityUnit => messages[3] = <<"low stability">>

\* The ladders ran on an animal survival probability of exactly 65 and a
\* stability of exactly 65 and emitted the messages of the middle bands.
C7_Witness ==
    /\ metrics[2] = 65 * AnimalUnit
    /\ metrics[3] = 65 * StabilityUnit
    /\ messages # <<>>
    /\ messages[2] = <<"uncertain">>
    /\ messages[3] = <<"vulnerable">>

\* C8 as claimed: every script run an interaction causes computes the three
\* outputs from the present inputs and renders them.
C8_EveryRunRendersResults ==
    [][metrics' = Simulate(temp', co2', rainfall', humidity', soil_ph', disturbance')
        /\ messages' = Interpret(metrics')
        /\ plot' # <<>>]_vars

\* C9: a run that renders results has the sensitivity selectbox at its
\* default, Temperature, and renders the chart for Temperature; results are
\* rendered exactly in the runs a click on Run Simulation caused; and a change
\* of the sensitivity selectbox leads to a run that renders the prompt alone.
C9_SensitivityAlwaysTemperature ==
    /\ [](/\ vary_param \in {NoWidget, VaryDefault}
          /\ plot \in {<<>>, <<VaryDefault>>}
          /\ Rendered <=> run_sim
          /\ Rendered <=> plot = <<VaryDefault>>
          /\ Rendered <=> vary_param = VaryDefault
          /\ Rendered <=> messages # <<>>
          /\ Prompt <=> ~Rendered)
    /\ [][SetVaryParam =>
            Prompt' /\ ~Rendered' /\ plot' = <<>> /\ messages' = <<>>]_vars

\* A run rendered results and the chart for Temperature.
C9_Witness ==
    /\ run_sim
    /\ Rendered
    /\ vary_param = VaryDefault
    /\ plot = <<VaryDefault>>

============================================================================
